---- MODULE Spec2Model ----
(***************************************************************************)
(* A model of src/lib.rs: ElfFile::get_libs_full_paths and the recursive   *)
(* ElfFile::collect_libs, which resolve the DT_NEEDED entries of an ELF    *)
(* file to paths on disk, depth first.                                     *)
(*                                                                         *)
(* Text is a sequence of bytes (numbers 0..255).  A PathBuf is its text,    *)
(* kept as the parts between the separators (after the root, when the text *)
(* is absolute); PathBuf's Eq and Hash compare the components, which leave *)
(* out empty parts and inner ".".  Path::exists and fs::read hand the text *)
(* to the operating system, which refuses a text of PATH_MAX bytes or more *)
(* and else walks it from the root or from the working directory.  The     *)
(* disk, the working directory, the depth the stack of the process holds,  *)
(* the room a panic takes on it, the environment variable and the starting *)
(* path are the inputs; the call stack of collect_libs is explicit.        *)
(***************************************************************************)
EXTENDS Integers, Sequences, FiniteSets, TLC

\* ------------------------------------------------------------------ bounds

\* Files on disk, the starting file included.
MaxFiles == 4
\* Dynamic entries, summed over all files on disk.
MaxEntries == 3

\* --------------------------------------------------------------- constants

NUL == 0
COLON == 58
SLASH == 47
DOT == 46

DT_NEEDED == 1
DT_RPATH == 15
DT_RUNPATH == 29

ELF32 == "ELF32"
ELF64 == "ELF64"

\* Option<T>: None is the empty sequence, Some(x) the sequence holding x.
None == << >>
Some(x) == << x >>
IsSome(o) == o # << >>
Unwrap(o) == o[1]

Min(S) == CHOOSE x \in S : \A y \in S : x <= y

\* ------------------------------------------------------------------- text

\* str::split(sep): the pieces between the separators, empty pieces kept.
RECURSIVE Split(_, _)
Split(s, sep) ==
    LET at == { i \in 1..Len(s) : s[i] = sep }
    IN  IF at = {} THEN << s >>
        ELSE << SubSeq(s, 1, Min(at) - 1) >>
                 \o Split(SubSeq(s, Min(at) + 1, Len(s)), sep)

IsCont(b) == b >= 128 /\ b <= 191

\* std::str::from_utf8: is the byte sequence well-formed UTF-8.
RECURSIVE Utf8Valid(_)
Utf8Valid(s) ==
    IF s = << >> THEN TRUE
    ELSE LET b == s[1]
             n == Len(s)
             rest(k) == SubSeq(s, k + 1, n)
         IN  IF b < 128 THEN Utf8Valid(rest(1))
             ELSE IF b >= 194 /\ b <= 223
                  THEN n >= 2 /\ IsCont(s[2]) /\ Utf8Valid(rest(2))
             ELSE IF b >= 224 /\ b <= 239
                  THEN /\ n >= 3
                       /\ IsCont(s[2]) /\ IsCont(s[3])
                       /\ (b = 224 => s[2] >= 160)
                       /\ (b = 237 => s[2] <= 159)
                       /\ Utf8Valid(rest(3))
             ELSE IF b >= 240 /\ b <= 244
                  THEN /\ n >= 4
                       /\ IsCont(s[2]) /\ IsCont(s[3]) /\ IsCont(s[4])
                       /\ (b = 240 => s[2] >= 144)
                       /\ (b = 244 => s[2] <= 143)
                       /\ Utf8Valid(rest(4))
             ELSE FALSE

\* u8_slice_to_str: the text before the first NUL, None when there is no
\* NUL or the bytes before it are not UTF-8.
u8_slice_to_str(c_str) ==
    LET at == { i \in 1..Len(c_str) : c_str[i] = NUL }
    IN  IF at # {}
        THEN LET slice == SubSeq(c_str, 1, Min(at) - 1)
             IN  IF Utf8Valid(slice) THEN Some(slice) ELSE None
        ELSE None

\* ------------------------------------------------------------------ paths

Root == << SLASH >>
CurDir == << DOT >>
ParentDir == << DOT, DOT >>
\* The part between two separators in a row, and after a final separator.
EmptyPart == << >>

\* The longest path text the operating system takes, its final NUL counted.
PATH_MAX == 4096

IsAbsolute(s) == Len(s) > 0 /\ s[1] = SLASH

\* PathBuf::from keeps the text: the root when the text is absolute, then the
\* parts between the separators.
PathBufFrom(s) ==
    IF s = << >> THEN << >>
    ELSE IF IsAbsolute(s)
    THEN << Root >> \o (IF Len(s) = 1 THEN << >> ELSE Split(Tail(s), SLASH))
    ELSE Split(s, SLASH)

\* The text of path p ends in a separator.
EndsWithSeparator(p) == p = << Root >> \/ (p # << >> /\ p[Len(p)] = EmptyPart)

\* Path::join (PathBuf::push): an absolute name replaces the directory, and
\* so does any name an empty directory; else the name follows the directory
\* and a separator, which is put in unless the directory ends in one, so
\* that an empty name leaves the directory with a final separator.
PathJoin(dir, name) ==
    IF IsAbsolute(name) \/ dir = << >> THEN PathBufFrom(name)
    ELSE IF name = << >>
    THEN (IF EndsWithSeparator(dir) THEN dir ELSE Append(dir, EmptyPart))
    ELSE IF dir = << Root >> THEN dir \o Split(name, SLASH)
    ELSE IF EndsWithSeparator(dir)
    THEN SubSeq(dir, 1, Len(dir) - 1) \o Split(name, SLASH)
    ELSE dir \o Split(name, SLASH)

RECURSIVE PartsLen(_, _)
PartsLen(p, i) ==
    IF i > Len(p) THEN 0
    ELSE Len(p[i]) + (IF i < Len(p) THEN 1 ELSE 0) + PartsLen(p, i + 1)

\* The bytes of the text of path p: its parts and the separators between
\* them, after the root.
TextLen(p) ==
    IF p # << >> /\ p[1] = Root THEN 1 + PartsLen(p, 2) ELSE PartsLen(p, 1)

RECURSIVE NormalParts(_, _, _)
NormalParts(parts, i, abs) ==
    IF i > Len(parts) THEN << >>
    ELSE LET p == parts[i]
             keep == p # EmptyPart /\ (p # CurDir \/ (i = 1 /\ ~abs))
         IN  (IF keep THEN << p >> ELSE << >>) \o NormalParts(parts, i + 1, abs)

\* Path::components, which Eq and Hash of PathBuf compare: repeated and
\* final separators and "." make no component, but for a "." that begins a
\* relative path.
Components(p) ==
    IF p # << >> /\ p[1] = Root THEN << Root >> \o NormalParts(Tail(p), 1, TRUE)
    ELSE NormalParts(p, 1, FALSE)

\* HashSet::contains: some path of the set has the components of p.
Contains(set, p) ==
    IF p \in set THEN TRUE ELSE Components(p) \in { Components(q) : q \in set }

\* ------------------------------------------------------------ file system

\* What a path holds: a directory, or a file that fs::read can or cannot
\* read and, when ElfBytes::minimal_parse accepts it, its header class, the
\* bytes of its .dynstr section and the entries of its .dynamic section
\* (None: the section is missing).
Unreadable ==
    [readable |-> FALSE, elf |-> FALSE, class |-> ELF64,
     dynstr |-> None, dynamic |-> None]
\* A directory (with or without files beneath it): fs::read fails on it.
Directory ==
    [readable |-> FALSE, elf |-> FALSE, class |-> "dir",
     dynstr |-> None, dynamic |-> None]
NotElf ==
    [readable |-> TRUE, elf |-> FALSE, class |-> ELF64,
     dynstr |-> None, dynamic |-> None]
Elf(class, dynstr, dynamic) ==
    [readable |-> TRUE, elf |-> TRUE, class |-> class,
     dynstr |-> dynstr, dynamic |-> dynamic]

Entry(tag, val) == [d_tag |-> tag, d_val |-> val]

VARIABLES
    fs,         \* the disk: absolute path -> what the path holds
    cwd,        \* the working directory of the process
    stack_frames, \* the calls of collect_libs the stack of the process lets
                  \* reach their loop over libs
    panic_frames, \* the calls of collect_libs whose room on the stack a panic
                  \* and its unwinding take
    env,        \* LD_LIBRARY_PATH: None (unset) or Some(text)
    start,      \* ElfFile.path
    pc,         \* "new", "running", "returned", "panicked", "aborted"
    stack,      \* the frames of collect_libs, innermost last
    seen_libs,  \* get_libs_full_paths's seen_libs
    lib_paths,  \* get_libs_full_paths's lib_paths
    ret,        \* the value a finished collect_libs call hands its caller
    result,     \* what get_libs_full_paths returned
    previous    \* the outcome of an earlier call on the same ElfFile, if any

vars ==
    << fs, cwd, stack_frames, panic_frames, env, start,
       pc, stack, seen_libs, lib_paths, ret, result, previous >>
inputs == << fs, cwd, stack_frames, panic_frames, env, start >>

\* Path p begins with path d.
HasPrefix(p, d) == Len(p) >= Len(d) /\ SubSeq(p, 1, Len(d)) = d

\* d is on disk: the root, what fs holds and every ancestor of it.
OnDisk(d) == d = << Root >> \/ \E p \in DOMAIN fs : HasPrefix(p, d)

\* d is a directory on disk: the root, a directory fs holds, an ancestor of
\* what fs holds.
IsDir(d) ==
    \/ d = << Root >>
    \/ \E p \in DOMAIN fs : HasPrefix(p, d) /\ (Len(p) > Len(d) \/ fs[p] = Directory)

\* The operating system walks path p from component i on, standing at the
\* absolute path at: a name leads on from a directory to what the directory
\* holds under it, ".." from a directory to its parent (the root is its own
\* parent), "." and an empty part need a directory and stay in it.
\* None: a component is not on disk, or is looked up in what is no
\* directory (a name that is not the last is checked on the next round: what
\* is a directory is on disk).
RECURSIVE Lookup(_, _, _)
Lookup(at, p, i) ==
    IF i > Len(p) THEN Some(at)
    ELSE IF ~IsDir(at) THEN None
    ELSE IF p[i] \in { CurDir, EmptyPart } THEN Lookup(at, p, i + 1)
    ELSE IF p[i] = ParentDir
    THEN Lookup(IF at = << Root >> THEN at ELSE SubSeq(at, 1, Len(at) - 1), p, i + 1)
    ELSE IF i < Len(p) \/ OnDisk(Append(at, p[i]))
    THEN Lookup(Append(at, p[i]), p, i + 1)
    ELSE None

\* What path p names on disk, if anything: an absolute path is walked from
\* the root, a relative one from the working directory; the empty path
\* names nothing, and nor does a path whose text with its final NUL is
\* longer than PATH_MAX.
Resolve(p) ==
    IF p = << >> THEN None
    ELSE LET at == IF p[1] = Root THEN Lookup(<< Root >>, p, 2)
                   ELSE Lookup(cwd, p, 1)
         IN  IF IsSome(at) /\ TextLen(p) < PATH_MAX THEN at ELSE None

\* Path::exists.
Exists(p) == IsSome(Resolve(p))

\* fs::read: the file the path names, None when the path names nothing, a
\* directory, or a file the process may not read.
Read(p) ==
    LET at == Resolve(p)
    IN  IF IsSome(at) /\ Unwrap(at) \in DOMAIN fs /\ fs[Unwrap(at)].readable
        THEN Some(fs[Unwrap(at)])
        ELSE None

\* fs::read succeeds.
CanRead(p) == IsSome(Read(p))

\* The file path p names.
FileAt(p) == Unwrap(Read(p))

\* fs::read and ElfBytes::minimal_parse both succeed.
CanParse(p) == LET lib_data == Read(p) IN IsSome(lib_data) /\ Unwrap(lib_data).elf

\* ------------------------------------------------------------ the program

\* verify_arch that accepts an ELF file of either class.
verify_arch_AnyClass(lib_path, is_64_bit_executable) ==
    LET lib_data == Read(lib_path)
    IN  IF IsSome(lib_data) THEN Unwrap(lib_data).elf ELSE FALSE

\* verify_arch that accepts a candidate it cannot read or parse.
verify_arch_TrueOnFailure(lib_path, is_64_bit_executable) ==
    LET lib_data == Read(lib_path)
    IN  IF IsSome(lib_data)
        THEN IF Unwrap(lib_data).elf
             THEN \/ Unwrap(lib_data).class = ELF64 /\ is_64_bit_executable
                  \/ Unwrap(lib_data).class = ELF32 /\ ~is_64_bit_executable
             ELSE TRUE
        ELSE TRUE

\* verify_arch: the candidate reads and parses as ELF and its class is the
\* requesting file's.
verify_arch(lib_path, is_64_bit_executable) ==
    LET lib_data == Read(lib_path)
    IN  IF IsSome(lib_data)
        THEN IF Unwrap(lib_data).elf
             THEN \/ Unwrap(lib_data).class = ELF64 /\ is_64_bit_executable
                  \/ Unwrap(lib_data).class = ELF32 /\ ~is_64_bit_executable
             ELSE FALSE
        ELSE FALSE

\* "/usr/lib", "/lib64", "/lib/x86_64-linux-gnu", "/lib", "/usr/lib64"
FixedDirs ==
    << << 47, 117, 115, 114, 47, 108, 105, 98 >>,
       << 47, 108, 105, 98, 54, 52 >>,
       << 47, 108, 105, 98, 47, 120, 56, 54, 95, 54, 52, 45,
          108, 105, 110, 117, 120, 45, 103, 110, 117 >>,
       << 47, 108, 105, 98 >>,
       << 47, 117, 115, 114, 47, 108, 105, 98, 54, 52 >> >>

MapPathBuf(strs) == [ i \in 1..Len(strs) |-> PathBufFrom(strs[i]) ]

\* The fixed directories as paths.
FixedSearchDirs == MapPathBuf(FixedDirs)

RECURSIVE ExistingDirs(_)
ExistingDirs(strs) ==
    IF strs = << >> THEN << >>
    ELSE (IF Exists(PathBufFrom(Head(strs)))
          THEN << PathBufFrom(Head(strs)) >> ELSE << >>)
             \o ExistingDirs(Tail(strs))

\* env::var("LD_LIBRARY_PATH") is Ok: the variable is set and is Unicode.
EnvOk == IsSome(env) /\ Utf8Valid(Unwrap(env))

\* InitialSearchDirs with the directories of LD_LIBRARY_PATH first.
InitialSearchDirs_EnvFirst ==
    (IF EnvOk THEN ExistingDirs(Split(Unwrap(env), COLON)) ELSE << >>)
        \o FixedSearchDirs

\* The search directories before the dynamic entries are read: the fixed
\* directories, then the directories of LD_LIBRARY_PATH that exist.
InitialSearchDirs ==
    FixedSearchDirs
        \o (IF EnvOk THEN ExistingDirs(Split(Unwrap(env), COLON)) ELSE << >>)

\* ScanDynamic that passes over a DT_NEEDED name it cannot decode.
RECURSIVE ScanDynamic_SkipsBadName(_, _, _, _, _)
ScanDynamic_SkipsBadName(dynamic, i, dynstr_bytes, libs, search_dirs) ==
    IF i > Len(dynamic)
    THEN [status |-> "ok", libs |-> libs, search_dirs |-> search_dirs]
    ELSE LET entry == dynamic[i]
             offset == entry.d_val
             in_range == offset <= Len(dynstr_bytes)
             text == u8_slice_to_str(
                         SubSeq(dynstr_bytes, offset + 1, Len(dynstr_bytes)))
             stop(s) == [status |-> s, libs |-> libs, search_dirs |-> search_dirs]
         IN  IF entry.d_tag = DT_NEEDED
             THEN IF ~in_range THEN stop("panic")
                  ELSE IF ~IsSome(text)
                  THEN ScanDynamic_SkipsBadName(dynamic, i + 1, dynstr_bytes,
                                                libs, search_dirs)
                  ELSE ScanDynamic_SkipsBadName(dynamic, i + 1, dynstr_bytes,
                                   Append(libs, Unwrap(text)), search_dirs)
             ELSE IF entry.d_tag \in { DT_RPATH, DT_RUNPATH }
             THEN IF ~in_range \/ ~IsSome(text) THEN stop("panic")
                  ELSE ScanDynamic_SkipsBadName(dynamic, i + 1, dynstr_bytes, libs,
                           search_dirs \o MapPathBuf(Split(Unwrap(text), COLON)))
             ELSE ScanDynamic_SkipsBadName(dynamic, i + 1, dynstr_bytes, libs,
                                           search_dirs)

\* The loop over the dynamic entries, from entry i on.  status is "ok" with
\* the names and directories gathered, "none" when the loop returned None,
\* "panic" when it panicked.
RECURSIVE ScanDynamic(_, _, _, _, _)
ScanDynamic(dynamic, i, dynstr_bytes, libs, search_dirs) ==
    IF i > Len(dynamic)
    THEN [status |-> "ok", libs |-> libs, search_dirs |-> search_dirs]
    ELSE LET entry == dynamic[i]
             offset == entry.d_val
             in_range == offset <= Len(dynstr_bytes)
             text == u8_slice_to_str(
                         SubSeq(dynstr_bytes, offset + 1, Len(dynstr_bytes)))
             stop(s) == [status |-> s, libs |-> libs, search_dirs |-> search_dirs]
         IN  IF entry.d_tag = DT_NEEDED
             THEN IF ~in_range THEN stop("panic")
                  ELSE IF ~IsSome(text) THEN stop("none")
                  ELSE ScanDynamic(dynamic, i + 1, dynstr_bytes,
                                   Append(libs, Unwrap(text)), search_dirs)
             ELSE IF entry.d_tag \in { DT_RPATH, DT_RUNPATH }
             THEN IF ~in_range \/ ~IsSome(text) THEN stop("panic")
                  ELSE ScanDynamic(dynamic, i + 1, dynstr_bytes, libs,
                           search_dirs \o MapPathBuf(Split(Unwrap(text), COLON)))
             ELSE ScanDynamic(dynamic, i + 1, dynstr_bytes, libs, search_dirs)

\* ReadElf that takes every file for a 64-bit file.
ReadElf_Always64(path) ==
    LET stop(s) == [status |-> s, libs |-> << >>, search_dirs |-> << >>,
                    is_64_bit |-> FALSE]
        elf_file_data == Read(path)
        elf == Unwrap(elf_file_data)
    IN  IF ~IsSome(elf_file_data) THEN stop("panic")
        ELSE IF ~elf.elf THEN stop("panic")
        ELSE IF ~IsSome(elf.dynstr) THEN stop("panic")
        ELSE IF ~IsSome(elf.dynamic) THEN stop("panic")
        ELSE LET r == ScanDynamic(Unwrap(elf.dynamic), 1,
                                  Unwrap(elf.dynstr), << >>,
                                  InitialSearchDirs)
             IN  [status |-> r.status, libs |-> r.libs,
                  search_dirs |-> r.search_dirs,
                  is_64_bit |-> TRUE]

\* collect_libs up to its loop over libs: read and parse the file, take its
\* class, its .dynstr and its .dynamic, and gather libs and search_dirs.
ReadElf(path) ==
    LET stop(s) == [status |-> s, libs |-> << >>, search_dirs |-> << >>,
                    is_64_bit |-> FALSE]
        elf_file_data == Read(path)
        elf == Unwrap(elf_file_data)
    IN  IF ~IsSome(elf_file_data) THEN stop("panic")
        ELSE IF ~elf.elf THEN stop("panic")
        ELSE IF ~IsSome(elf.dynstr) THEN stop("panic")
        ELSE IF ~IsSome(elf.dynamic) THEN stop("panic")
        ELSE LET r == ScanDynamic(Unwrap(elf.dynamic), 1,
                                  Unwrap(elf.dynstr), << >>,
                                  InitialSearchDirs)
             IN  [status |-> r.status, libs |-> r.libs,
                  search_dirs |-> r.search_dirs,
                  is_64_bit |-> (elf.class = ELF64)]

\* ----------------------------------------------------------------- inputs

\* The .dynstr section every ELF file of the model carries.  By offset:
\*   0 ""   1 "a"   3 "b"   5 "/e:/h"   8 "/h"   9 "h"
\*   11 the byte 0xFF (not UTF-8)
\*   13 "a" with no NUL after it   14 nothing   15 past the end
DynStr == << 0, 97, 0, 98, 0, 47, 101, 58, 47, 104, 0, 255, 0, 97 >>

LibA == << 97 >>
LibB == << 98 >>
LibH == << 104 >>
\* "/e", "/h", "/g:/e" ("/g" is never on disk), "/x"
EnvDir == << 47, 101 >>
HintDir == << 47, 104 >>
EnvGoneThenEnvDir == << 47, 103, 58, 47, 101 >>
AppPath == << 47, 120 >>

NeedA == Entry(DT_NEEDED, 1)
NeedB == Entry(DT_NEEDED, 3)
NeedH == Entry(DT_NEEDED, 9)
NeedNotUtf8 == Entry(DT_NEEDED, 11)
NeedNoNul == Entry(DT_NEEDED, 13)
NeedPastEnd == Entry(DT_NEEDED, 15)
RpathH == Entry(DT_RPATH, 8)
RpathEH == Entry(DT_RPATH, 5)
RunpathH == Entry(DT_RUNPATH, 8)
RpathNotUtf8 == Entry(DT_RPATH, 11)
\* DT_SONAME, a tag collect_libs ignores
Soname == Entry(14, 1)

Leaf(class) == Elf(class, Some(DynStr), Some(<< >>))

\* The sequences over S of length n.
RECURSIVE SeqsOfLen(_, _)
SeqsOfLen(S, n) ==
    IF n <= 0 THEN { << >> }
    ELSE { Append(q, x) : q \in SeqsOfLen(S, n - 1), x \in S }

\* A path that holds nothing.
Absent ==
    [readable |-> FALSE, elf |-> FALSE, class |-> "absent",
     dynstr |-> None, dynamic |-> None]

\* What a path may hold at cost k: nothing (k = -1), or a 64-bit ELF file
\* with k dynamic entries drawn from Alphabet, or (k = 1) one of the files
\* Damaged.
Images(k, Damaged, Alphabet) ==
    IF k < 0 THEN { Absent }
    ELSE { Elf(ELF64, Some(DynStr), Some(es)) : es \in SeqsOfLen(Alphabet, k) }
             \cup (IF k = 1 THEN Damaged ELSE {})

Cost(k) == IF k < 0 THEN 0 ELSE k
Files(ks) == Cardinality({ i \in 1..Len(ks) : ks[i] >= 0 })

\* The disk that holds image imgs[i] at path paths[i].
Disk(paths, imgs) ==
    LET on == { i \in 1..Len(paths) : imgs[i] # Absent }
    IN  [ p \in { paths[i] : i \in on } |->
            imgs[CHOOSE i \in on : paths[i] = p] ]

\* fs is a disk on the (at most four) paths: at most MaxFiles files, and at most
\* MaxEntries dynamic entries on the whole disk, a damaged file counting as
\* one entry.
DiskOn(paths, Damaged, Alphabet) ==
    \E k1 \in -1..MaxEntries :
    \E k2 \in -1..(MaxEntries - Cost(k1)) :
    \E k3 \in -1..(MaxEntries - Cost(k1) - Cost(k2)) :
    \E k4 \in IF Len(paths) < 4 THEN { -1 }
              ELSE -1..(MaxEntries - Cost(k1) - Cost(k2) - Cost(k3)) :
        /\ Files(<< k1, k2, k3, k4 >>) <= MaxFiles
        /\ \E i1 \in Images(k1, Damaged, Alphabet), i2 \in Images(k2, Damaged, Alphabet),
              i3 \in Images(k3, Damaged, Alphabet), i4 \in Images(k4, Damaged, Alphabet) :
               fs = Disk(paths, << i1, i2, i3, i4 >>)

File(dir, name) == PathJoin(PathBufFrom(dir), name)

\* A stack of the process that holds a call of collect_libs for every file
\* the disk may hold and, above the deepest of them, a panic that takes the
\* room of one call.
AmpleStack == MaxFiles + 1

\* Dependency graphs: well-formed 64-bit files "a" and "b" in /usr/lib and
\* /h, the traversal started at a file "a" (a start at a file "b" is the
\* same traversal with the two names swapped).
GraphPaths ==
    << File(FixedDirs[1], LibA), File(FixedDirs[1], LibB),
       File(HintDir, LibA), File(HintDir, LibB) >>
GraphEntries == { NeedA, NeedB, RpathH }

InitGraph ==
    /\ DiskOn(GraphPaths, {}, GraphEntries)
    /\ start \in DOMAIN fs \cap { GraphPaths[1], GraphPaths[3] }
    /\ env = None
    /\ cwd = << Root >>
    /\ stack_frames = AmpleStack
    /\ panic_frames = 1

\* Dependency trees: /x and well-formed 64-bit files "a", "b" and "h" in
\* /usr/lib.
TreePaths ==
    << PathBufFrom(AppPath), File(FixedDirs[1], LibA), File(FixedDirs[1], LibB),
       File(FixedDirs[1], LibH) >>
TreeEntries == { NeedA, NeedB, NeedH }

InitTree ==
    /\ DiskOn(TreePaths, {}, TreeEntries)
    /\ start = PathBufFrom(AppPath)
    /\ env = None
    /\ cwd = << Root >>
    /\ stack_frames = AmpleStack
    /\ panic_frames = 1

\* Search order: /x needs "a"; 32-bit and 64-bit files "a" lie in the fixed
\* directories, in /e (named by LD_LIBRARY_PATH) and in /h (named by /x).
OrderDirs == { FixedDirs[i] : i \in 1..Len(FixedDirs) } \cup { EnvDir, HintDir }
OrderPaths == { File(d, LibA) : d \in OrderDirs }
OrderDynamics ==
    { << NeedA >>, << RpathEH, NeedA >>, << NeedA, RunpathH >>, << Soname, NeedA >> }

InitOrder ==
    /\ start = PathBufFrom(AppPath)
    /\ \E P \in SUBSET OrderPaths, c \in { ELF32, ELF64 }, es \in OrderDynamics :
           /\ Cardinality(P) < MaxFiles
           /\ \E d \in [P -> { Leaf(ELF32), Leaf(ELF64) }] :
                  fs = (start :> Elf(c, Some(DynStr), Some(es))) @@ d
    /\ env \in { None, Some(EnvGoneThenEnvDir) }
    /\ cwd = << Root >>
    /\ stack_frames = AmpleStack
    /\ panic_frames = 1

\* Damage: /x, /usr/lib/a and /h/a, any of them unreadable, not ELF, without
\* .dynstr or without .dynamic, or with text that does not decode or lies
\* past the end of .dynstr.
FaultPaths ==
    << PathBufFrom(AppPath), File(FixedDirs[1], LibA), File(HintDir, LibA) >>
FaultEntries ==
    { NeedA, RpathH, NeedNotUtf8, NeedNoNul, NeedPastEnd, RpathNotUtf8 }
Damaged ==
    { Unreadable, NotElf, Elf(ELF64, None, Some(<< >>)), Elf(ELF64, Some(DynStr), None) }

InitFaults ==
    /\ DiskOn(FaultPaths, Damaged, FaultEntries)
    /\ start = PathBufFrom(AppPath)
    /\ env = None
    /\ cwd = << Root >>
    /\ stack_frames = AmpleStack
    /\ panic_frames = 1

\* Paths the operating system does not take component by component.  The
\* .dynstr section of the files here, by offset:
\*   0 ""   1 "a"   3 "/h/../e"   9 "e"
PathStr == << 0, 97, 0, 47, 104, 47, 46, 46, 47, 101, 0 >>
NeedEmpty == Entry(DT_NEEDED, 0)
RpathUp == Entry(DT_RPATH, 3)
RpathRelative == Entry(DT_RPATH, 9)
RpathEmpty == Entry(DT_RPATH, 0)
PathDynamics ==
    { << NeedA >>, << NeedEmpty >>, << RpathUp, NeedA >>,
      << RpathRelative, NeedA >>, << RpathEmpty, NeedA >> }
\* "/x/", "x", "/x:e", "e/a"
AppPathSlash == << 47, 120, 47 >>
AppPathRelative == << 120 >>
EnvFileThenRelative == << 47, 120, 58, 101 >>
RelativeLibA == << 101, 47, 97 >>

\* /x is a 64-bit file and /h a directory; /e is absent, an empty directory
\* or holds a 64-bit file "a"; /h/e is absent or holds a 64-bit file "a".
\* The starting path is /x, /x with a final separator, or x relative to the
\* working directory, which is the root or /h; LD_LIBRARY_PATH names the
\* file /x and the relative directory e.
InitPaths ==
    /\ \E es \in PathDynamics :
       \E under_e \in { << >>,
                        PathBufFrom(EnvDir) :> Directory,
                        File(EnvDir, LibA) :> Elf(ELF64, Some(PathStr), Some(<< >>)) } :
       \E under_h \in { << >>,
                        File(HintDir, RelativeLibA)
                            :> Elf(ELF64, Some(PathStr), Some(<< >>)) } :
           fs = (PathBufFrom(AppPath) :> Elf(ELF64, Some(PathStr), Some(es)))
                    @@ (PathBufFrom(HintDir) :> Directory) @@ under_e @@ under_h
    /\ start \in { PathBufFrom(AppPath), PathBufFrom(AppPathSlash),
                    PathBufFrom(AppPathRelative) }
    /\ env \in { None, Some(EnvFileThenRelative) }
    /\ cwd \in { << Root >>, PathBufFrom(HintDir) }
    /\ stack_frames = AmpleStack
    /\ panic_frames = 1

\* A path of 255 bytes, and the text "/" then n times that path and "/../",
\* then "x": 3887 bytes for n = 15 and 4146 for n = 16.
LongName == [ i \in 1..255 |-> 76 ]
RECURSIVE Repeat(_, _)
Repeat(s, n) == IF n <= 0 THEN << >> ELSE s \o Repeat(s, n - 1)
LongAppPath(n) ==
    << SLASH >> \o Repeat(LongName \o << SLASH, DOT, DOT, SLASH >>, n) \o << 120 >>

\* Long paths: /x is a 64-bit file without dependencies, beside a directory
\* with a name of 255 bytes; the starting path names /x through that
\* directory and back, in a text shorter or longer than PATH_MAX.
InitLong ==
    /\ fs = (PathBufFrom(AppPath) :> Leaf(ELF64))
                @@ (<< Root, LongName >> :> Directory)
    /\ start \in { PathBufFrom(LongAppPath(15)), PathBufFrom(LongAppPath(16)) }
    /\ env = None
    /\ cwd = << Root >>
    /\ stack_frames = AmpleStack
    /\ panic_frames = 1

\* A short stack: /x names the directory /h and needs "a"; /usr/lib/a is
\* absent, a directory, unreadable, not ELF or a 32-bit file; /h/a is a
\* 64-bit file that needs nothing, needs "a" and names /h (so that it finds
\* itself), needs "b", has no .dynstr or no .dynamic, or needs a name past
\* the end of .dynstr; /usr/lib/b is a 64-bit file with or without
\* .dynamic.  The stack of the process holds one call or more, and a panic
\* takes the room of no call, of one or of two.
ShortStackDecoys == { Directory, Unreadable, NotElf, Leaf(ELF32) }
ShortStackLibs ==
    { Elf(ELF64, Some(DynStr), Some(es)) :
        es \in { << >>, << RpathH, NeedA >>, << NeedB >>, << NeedPastEnd >> } }
        \cup { Elf(ELF64, None, Some(<< >>)), Elf(ELF64, Some(DynStr), None) }

InitDeep ==
    /\ \E decoy \in { << >> } \cup { File(FixedDirs[1], LibA) :> d : d \in ShortStackDecoys },
          lib_a \in ShortStackLibs,
          lib_b \in { Leaf(ELF64), Elf(ELF64, Some(DynStr), None) } :
           fs = (PathBufFrom(AppPath) :> Elf(ELF64, Some(DynStr), Some(<< RpathH, NeedA >>)))
                    @@ (File(HintDir, LibA) :> lib_a)
                    @@ (File(FixedDirs[1], LibB) :> lib_b)
                    @@ decoy
    /\ start = PathBufFrom(AppPath)
    /\ env = None
    /\ cwd = << Root >>
    /\ stack_frames \in 1..MaxFiles
    /\ panic_frames \in 0..2

Init ==
    /\ \/ InitGraph \/ InitTree \/ InitOrder \/ InitFaults
       \/ InitPaths \/ InitLong \/ InitDeep
    /\ pc = "new"
    /\ stack = << >>
    /\ seen_libs = {}
    /\ lib_paths = << >>
    /\ ret = "-"
    /\ result = None
    /\ previous = None

\* ---------------------------------------------------------------- actions

\* A call of collect_libs(path, ..) that has not read its file yet.
Called(path) ==
    [path |-> path, at |-> "entry", is_64_bit |-> FALSE,
     search_dirs |-> << >>, libs |-> << >>, lib |-> 1, dir |-> 1]

Top == stack[Len(stack)]
Pop == SubSeq(stack, 1, Len(stack) - 1)
SetTop(f) == [stack EXCEPT ![Len(stack)] = f]

Running == pc = "running" /\ stack # << >> /\ ret = "-"
InLoop == Running /\ Top.at = "loop"
Probing == InLoop /\ Top.lib <= Len(Top.libs) /\ Top.dir <= Len(Top.search_dirs)

\* The candidate the inner loop is looking at.
possible_lib_path == PathJoin(Top.search_dirs[Top.dir], Top.libs[Top.lib])
Matches == Exists(possible_lib_path) /\ verify_arch(possible_lib_path, Top.is_64_bit)

\* GetLibsFullPaths without the starting path in seen_libs.
GetLibsFullPaths_NoSeed ==
    /\ pc = "new"
    /\ pc' = "running"
    /\ seen_libs' = {}
    /\ lib_paths' = << >>
    /\ stack' = << Called(start) >>
    /\ UNCHANGED << inputs, previous, ret, result >>

\* GetLibsFullPaths with a seen_libs that outlives the call.
GetLibsFullPaths_KeepsSeen ==
    /\ pc = "new"
    /\ pc' = "running"
    /\ seen_libs' = seen_libs \cup { start }
    /\ lib_paths' = << >>
    /\ stack' = << Called(start) >>
    /\ UNCHANGED << inputs, previous, ret, result >>

\* get_libs_full_paths up to its call of collect_libs.
GetLibsFullPaths ==
    /\ pc = "new"
    /\ pc' = "running"
    /\ seen_libs' = { start }
    /\ lib_paths' = << >>
    /\ stack' = << Called(start) >>
    /\ UNCHANGED << inputs, previous, ret, result >>

\* ReadOk that hands the caller's search_dirs down to the call.
ReadOk_InheritsDirs ==
    /\ Running /\ Top.at = "entry"
    /\ LET r == ReadElf(Top.path)
           inherited == IF Len(stack) > 1
                        THEN stack[Len(stack) - 1].search_dirs ELSE << >>
       IN  /\ r.status = "ok"
           /\ stack' = SetTop([Top EXCEPT !.at = "loop",
                                          !.is_64_bit = r.is_64_bit,
                                          !.search_dirs = r.search_dirs \o inherited,
                                          !.libs = r.libs])
    /\ UNCHANGED << inputs, previous, pc, seen_libs, lib_paths, ret, result >>

\* collect_libs reads its file and gathers libs and search_dirs.
ReadOk ==
    /\ Running /\ Top.at = "entry"
    /\ LET r == ReadElf(Top.path)
       IN  /\ r.status = "ok"
           /\ stack' = SetTop([Top EXCEPT !.at = "loop",
                                          !.is_64_bit = r.is_64_bit,
                                          !.search_dirs = r.search_dirs,
                                          !.libs = r.libs])
    /\ UNCHANGED << inputs, previous, pc, seen_libs, lib_paths, ret, result >>

\* A DT_NEEDED name does not decode: collect_libs returns None.
ReadNone ==
    /\ Running /\ Top.at = "entry"
    /\ ReadElf(Top.path).status = "none"
    /\ stack' = Pop
    /\ ret' = "None"
    /\ UNCHANGED << inputs, previous, pc, seen_libs, lib_paths, result >>

\* An expect() fails and the stack of the process does not hold the panic
\* and its unwinding, which need more of it than the call's plain path: the
\* process is aborted ("stack overflow") instead of panicking.
PanicOverflow ==
    /\ Running /\ Top.at = "entry"
    /\ ReadElf(Top.path).status = "panic"
    /\ Len(stack) + panic_frames > stack_frames
    /\ pc' = "aborted"
    /\ UNCHANGED << inputs, previous, stack, seen_libs, lib_paths, ret, result >>

\* An expect() fails: the thread panics and nothing is returned.
ReadPanic ==
    /\ Running /\ Top.at = "entry"
    /\ ReadElf(Top.path).status = "panic"
    /\ Len(stack) + panic_frames <= stack_frames
    /\ pc' = "panicked"
    /\ stack' = << >>
    /\ UNCHANGED << inputs, previous, seen_libs, lib_paths, ret, result >>

\* The candidate is absent or of the other class: next directory.
ProbeMiss ==
    /\ Probing /\ ~Matches
    /\ stack' = SetTop([Top EXCEPT !.dir = @ + 1])
    /\ UNCHANGED << inputs, previous, pc, seen_libs, lib_paths, ret, result >>

\* ProbeSeen that recurses into the candidate it has seen.
ProbeSeen_Recurses ==
    /\ Probing /\ Matches
    /\ Contains(seen_libs, possible_lib_path)
    /\ stack' = Append(stack, Called(possible_lib_path))
    /\ UNCHANGED << inputs, previous, pc, seen_libs, lib_paths, ret, result >>

\* ProbeSeen that lists the candidate once more.
ProbeSeen_Reappends ==
    /\ Probing /\ Matches
    /\ Contains(seen_libs, possible_lib_path)
    /\ lib_paths' = Append(lib_paths, possible_lib_path)
    /\ stack' = SetTop([Top EXCEPT !.lib = @ + 1, !.dir = 1])
    /\ UNCHANGED << inputs, previous, pc, seen_libs, ret, result >>

\* The candidate was processed before: found, next library.
ProbeSeen ==
    /\ Probing /\ Matches
    /\ Contains(seen_libs, possible_lib_path)
    /\ stack' = SetTop([Top EXCEPT !.lib = @ + 1, !.dir = 1])
    /\ UNCHANGED << inputs, previous, pc, seen_libs, lib_paths, ret, result >>

\* ProbeNew without the recursive call.
ProbeNew_NoRecursion ==
    /\ Probing /\ Matches
    /\ ~Contains(seen_libs, possible_lib_path)
    /\ seen_libs' = seen_libs \cup { possible_lib_path }
    /\ lib_paths' = Append(lib_paths, possible_lib_path)
    /\ stack' = SetTop([Top EXCEPT !.lib = @ + 1, !.dir = 1])
    /\ UNCHANGED << inputs, previous, pc, ret, result >>

\* ProbeNew without the insertion into seen_libs.
ProbeNew_NotMarkedSeen ==
    /\ Probing /\ Matches
    /\ ~Contains(seen_libs, possible_lib_path)
    /\ Len(stack) < stack_frames
    /\ lib_paths' = Append(lib_paths, possible_lib_path)
    /\ stack' = Append(stack, Called(possible_lib_path))
    /\ UNCHANGED << inputs, previous, pc, seen_libs, ret, result >>

\* ProbeNew that puts the candidate at the head of lib_paths.
ProbeNew_Prepends ==
    /\ Probing /\ Matches
    /\ ~Contains(seen_libs, possible_lib_path)
    /\ Len(stack) < stack_frames
    /\ seen_libs' = seen_libs \cup { possible_lib_path }
    /\ lib_paths' = << possible_lib_path >> \o lib_paths
    /\ stack' = Append(stack, Called(possible_lib_path))
    /\ UNCHANGED << inputs, previous, pc, ret, result >>

\* The candidate is new: record it and recurse into it, when the stack of
\* the process holds one more call.
ProbeNew ==
    /\ Probing /\ Matches
    /\ ~Contains(seen_libs, possible_lib_path)
    /\ Len(stack) < stack_frames
    /\ seen_libs' = seen_libs \cup { possible_lib_path }
    /\ lib_paths' = Append(lib_paths, possible_lib_path)
    /\ stack' = Append(stack, Called(possible_lib_path))
    /\ UNCHANGED << inputs, previous, pc, ret, result >>

\* The innermost call is the deepest the stack of the process holds, and
\* what the probe of a candidate calls (join, exists, and verify_arch with
\* fs::read and minimal_parse) may not fit on what is left of it, whatever
\* the candidate is: the process is aborted ("stack overflow"), which is
\* neither a return nor a panic, and nothing runs after it.  How much of
\* the stack is left depends on the build and on the limit of the process.
ProbeOverflow ==
    /\ Probing
    /\ Len(stack) >= stack_frames
    /\ pc' = "aborted"
    /\ UNCHANGED << inputs, previous, stack, seen_libs, lib_paths, ret, result >>

\* The probe went through, the candidate is new and recorded, and the stack
\* of the process does not hold the recursive call: the process is aborted
\* in it.
StackOverflow ==
    /\ Probing /\ Matches
    /\ ~Contains(seen_libs, possible_lib_path)
    /\ Len(stack) >= stack_frames
    /\ seen_libs' = seen_libs \cup { possible_lib_path }
    /\ lib_paths' = Append(lib_paths, possible_lib_path)
    /\ pc' = "aborted"
    /\ UNCHANGED << inputs, previous, stack, ret, result >>

\* NotFound that skips the library instead of returning None.
NotFound_Skips ==
    /\ InLoop /\ Top.lib <= Len(Top.libs) /\ Top.dir > Len(Top.search_dirs)
    /\ stack' = SetTop([Top EXCEPT !.lib = @ + 1, !.dir = 1])
    /\ UNCHANGED << inputs, previous, pc, seen_libs, lib_paths, ret, result >>

\* No directory holds the library: collect_libs returns None.
NotFound ==
    /\ InLoop /\ Top.lib <= Len(Top.libs) /\ Top.dir > Len(Top.search_dirs)
    /\ stack' = Pop
    /\ ret' = "None"
    /\ UNCHANGED << inputs, previous, pc, seen_libs, lib_paths, result >>

\* Every library is handled: collect_libs returns Some(()), and the caller's
\* loop breaks and goes on with its next library.
ReturnSome ==
    /\ InLoop /\ Top.lib > Len(Top.libs)
    /\ IF Len(stack) = 1
       THEN stack' = << >> /\ ret' = "Some"
       ELSE /\ stack' = [Pop EXCEPT ![Len(stack) - 1] =
                            [@ EXCEPT !.lib = @ + 1, !.dir = 1]]
            /\ ret' = ret
    /\ UNCHANGED << inputs, previous, pc, seen_libs, lib_paths, result >>

\* PropagateNone that takes the failed call for a successful one: the caller
\* goes on with its next library.
PropagateNone_GoesOn ==
    /\ pc = "running" /\ stack # << >> /\ ret = "None"
    /\ stack' = SetTop([Top EXCEPT !.lib = @ + 1, !.dir = 1])
    /\ ret' = "-"
    /\ UNCHANGED << inputs, previous, pc, seen_libs, lib_paths, result >>

\* The ? after the recursive call: None returns None from the caller too.
PropagateNone ==
    /\ pc = "running" /\ stack # << >> /\ ret = "None"
    /\ stack' = Pop
    /\ UNCHANGED << inputs, previous, pc, seen_libs, lib_paths, ret, result >>

\* Finish that takes an empty list for a failure.
Finish_EmptyIsNone ==
    /\ pc = "running" /\ stack = << >> /\ ret # "-"
    /\ pc' = "returned"
    /\ result' = IF ret = "Some" /\ lib_paths # << >> THEN Some(lib_paths) ELSE None
    /\ UNCHANGED << inputs, previous, stack, seen_libs, lib_paths, ret >>

\* get_libs_full_paths maps the outcome of collect_libs to its result.
Finish ==
    /\ pc = "running" /\ stack = << >> /\ ret # "-"
    /\ pc' = "returned"
    /\ result' = IF ret = "Some" THEN Some(lib_paths) ELSE None
    /\ UNCHANGED << inputs, previous, stack, seen_libs, lib_paths, ret >>

Next ==
    \/ GetLibsFullPaths
    \/ ReadOk
    \/ ReadNone
    \/ ReadPanic
    \/ PanicOverflow
    \/ ProbeMiss
    \/ ProbeSeen
    \/ ProbeNew
    \/ ProbeOverflow
    \/ StackOverflow
    \/ NotFound
    \/ ReturnSome
    \/ PropagateNone
    \/ Finish

Spec == Init /\ [][Next]_vars

\* get_libs_full_paths is called once more on the same ElfFile (it takes
\* &self), the disk and LD_LIBRARY_PATH as they were.  The outcome of the
\* first call is kept; what the first call left in memory is still there
\* until the new call makes its own seen_libs and lib_paths.
CallAgain ==
    /\ pc \in { "returned", "panicked" }
    /\ previous = None
    /\ previous' = Some([pc |-> pc, result |-> result])
    /\ pc' = "new"
    /\ stack' = << >>
    /\ ret' = "-"
    /\ result' = None
    /\ UNCHANGED << inputs, seen_libs, lib_paths >>

NextTwice ==
    \/ Next
    \/ CallAgain

\* One call of get_libs_full_paths, and then a second.
SpecTwice == Init /\ [][NextTwice]_vars

\* ------------------------------------------------- what the claims speak of

Range(q) == { q[i] : i \in 1..Len(q) }
Count(q, x) == Cardinality({ i \in 1..Len(q) : q[i] = x })
Returned == pc = "returned"
Done == pc \in { "returned", "panicked" }
Aborted == pc = "aborted"

\* The text a dynamic entry of file image f points at.
TextIn(f, entry) ==
    LET bytes == Unwrap(f.dynstr)
    IN  IF entry.d_val > Len(bytes) THEN None
        ELSE u8_slice_to_str(SubSeq(bytes, entry.d_val + 1, Len(bytes)))

EntriesIn(f, tags) == SelectSeq(Unwrap(f.dynamic), LAMBDA e : e.d_tag \in tags)

\* The same of the file at path p.
TextOf(p, entry) == TextIn(FileAt(p), entry)
EntriesOf(p, tags) == EntriesIn(FileAt(p), tags)

\* File p parses: it is a readable ELF file with .dynstr and .dynamic, and
\* the names and hints of its dynamic entries decode.
WellFormed(p) ==
    LET lib_data == Read(p)
        f == Unwrap(lib_data)
    IN  /\ IsSome(lib_data) /\ f.elf
        /\ IsSome(f.dynstr)
        /\ IsSome(f.dynamic)
        /\ \A e \in Range(EntriesIn(f, { DT_NEEDED, DT_RPATH, DT_RUNPATH })) :
               IsSome(TextIn(f, e))

\* The dependency names file p declares, in order.
DeclaredOf(p) ==
    LET f == FileAt(p)
        es == EntriesIn(f, { DT_NEEDED })
    IN  [ i \in 1..Len(es) |-> Unwrap(TextIn(f, es[i])) ]

RECURSIVE Flatten(_)
Flatten(qq) == IF qq = << >> THEN << >> ELSE Head(qq) \o Flatten(Tail(qq))

\* The directories file p embeds, in order.
HintsOf(p) ==
    LET f == FileAt(p)
        es == EntriesIn(f, { DT_RPATH, DT_RUNPATH })
    IN  MapPathBuf(Flatten([ i \in 1..Len(es) |->
                               Split(Unwrap(TextIn(f, es[i])), COLON) ]))

\* The directories of LD_LIBRARY_PATH that exist, in order.
EnvDirsOnDisk ==
    IF IsSome(env)
    THEN SelectSeq(MapPathBuf(Split(Unwrap(env), COLON)), Exists)
    ELSE << >>

\* The search list as section 3 of the specification orders it.
SearchListOf(p) == FixedSearchDirs \o EnvDirsOnDisk \o HintsOf(p)

\* c is on disk, a file that parses, of word size class.
HasWordSize(c, class) ==
    LET lib_data == Read(c)
    IN  IsSome(lib_data) /\ Unwrap(lib_data).elf /\ Unwrap(lib_data).class = class

\* c is on disk and has the word size of file p.
SameWordSize(c, p) == HasWordSize(c, FileAt(p).class)

\* The directories of p's search list (by index) that resolve name.
Resolving(p, name) ==
    LET list == SearchListOf(p)
        class == FileAt(p).class
    IN  { j \in 1..Len(list) : HasWordSize(PathJoin(list[j], name), class) }

\* The path a dependency name of file p resolves to: the first candidate of
\* p's search list that is on disk with p's word size.
RECURSIVE FirstWithWordSize(_, _, _, _)
FirstWithWordSize(list, j, name, class) ==
    IF j > Len(list) THEN None
    ELSE IF HasWordSize(PathJoin(list[j], name), class)
    THEN Some(PathJoin(list[j], name))
    ELSE FirstWithWordSize(list, j + 1, name, class)

ResolvedOf(p, name) == FirstWithWordSize(SearchListOf(p), 1, name, FileAt(p).class)

\* File p declares a dependency that no directory of its search list holds.
HasMissing(p) ==
    WellFormed(p) /\ \E n \in Range(DeclaredOf(p)) : ~IsSome(ResolvedOf(p, n))

\* The paths the declared dependencies of file p resolve to.
DepsOf(p) ==
    IF WellFormed(p)
    THEN UNION { Range(ResolvedOf(p, n)) : n \in Range(DeclaredOf(p)) }
    ELSE {}

RECURSIVE ReachFrom(_)
ReachFrom(S) ==
    LET more == S \cup UNION { DepsOf(p) : p \in S }
    IN  IF more = S THEN S ELSE ReachFrom(more)

\* The transitive closure of the dependencies of the starting file.
Closure == ReachFrom({ start })

\* ----------------------------------------------------------------- claims

\* C1: when a file the traversal visited declares a dependency that no
\* directory of its search list holds with the right word size,
\* get_libs_full_paths returns None and not the paths resolved so far.
C1_MissingDependencyReturnsNone ==
    (Returned /\ \E p \in seen_libs : HasMissing(p)) => result = None

\* A traversal that had resolved a path when a dependency was missing.
C1_Witness ==
    /\ Returned /\ result = None /\ lib_paths # << >>
    /\ \E p \in seen_libs : HasMissing(p)

\* C2: on success the set of the returned paths is the transitive closure of
\* the starting file's dependencies without the starting path, and holds
\* the resolved path of every dependency the starting file declares.
C2_ResultIsClosure ==
    (Returned /\ IsSome(result)) =>
        /\ Range(Unwrap(result)) = Closure \ { start }
        /\ \A n \in Range(DeclaredOf(start)) :
               /\ IsSome(ResolvedOf(start, n))
               /\ Unwrap(ResolvedOf(start, n)) \in Range(Unwrap(result)) \cup { start }

\* A successful traversal that returns a dependency of a dependency.
C2_Witness ==
    /\ Returned /\ IsSome(result)
    /\ \E p \in Range(Unwrap(result)) : p \notin DepsOf(start)

\* B lies on a cycle with the starting file A: A depends on B and B on A.
OnCycleWithStart(b) == b # start /\ b \in DepsOf(start) /\ start \in DepsOf(b)

Max(S) == CHOOSE x \in S : \A y \in S : x >= y

\* No file has more dynamic entries than MostEntries and no .dynstr more
\* bytes than MostText, so no search list has more directories than
\* MostDirs and no call of collect_libs takes more steps of its own than
\* CallSteps.
MostEntries ==
    Max({ 0 } \cup { Len(Unwrap(fs[p].dynamic)) :
                       p \in { q \in DOMAIN fs : IsSome(fs[q].dynamic) } })
MostText ==
    Max({ 0 } \cup { Len(Unwrap(fs[p].dynstr)) :
                       p \in { q \in DOMAIN fs : IsSome(fs[q].dynstr) } })
MostDirs(entries) ==
    Len(FixedDirs) + (IF IsSome(env) THEN Len(Unwrap(env)) + 1 ELSE 0)
        + entries * (MostText + 1)
CallSteps(entries, dirs) == 2 + entries * (dirs + 1)

\* No more paths than MostPaths are ever in seen_libs: the starting path,
\* and for every file on disk the candidates its names and its search list
\* form.
MostPaths(entries, dirs) == 1 + Cardinality(DOMAIN fs) * entries * dirs

\* The steps frame f has left of its own, when a call takes at most call
\* steps.
StepsLeft(f, call) ==
    IF f.at = "entry" THEN call
    ELSE (Len(f.libs) - f.lib + 1) * (Len(f.search_dirs) + 1) - (f.dir - 1) + 1

RECURSIVE SumStepsLeft(_, _)
SumStepsLeft(frames, call) ==
    IF frames = << >> THEN 0
    ELSE StepsLeft(Head(frames), call) + SumStepsLeft(Tail(frames), call)

\* A bound on the steps the traversal has left, when a call takes at most
\* call steps and seen_libs never holds more than paths paths: every path
\* not seen yet may cost one more call.
Rank(call, paths) ==
    (call + 2) * (paths - Cardinality(seen_libs))
        + SumStepsLeft(stack, call)
        + (IF pc = "running" THEN 1 ELSE 0)

\* Some step of the traversal can be taken.
CanStep ==
    \/ pc = "new"
    \/ pc = "running" /\ stack = << >> /\ ret # "-"
    \/ pc = "running" /\ stack # << >> /\ ret = "None"
    \/ Running /\ Top.at = "entry"
    \/ InLoop /\ Top.lib > Len(Top.libs)
    \/ InLoop /\ Top.lib <= Len(Top.libs) /\ Top.dir > Len(Top.search_dirs)
    \/ Probing

\* When A depends on B and B on A, a traversal started at A never lists A,
\* and lists B once when it returns its list (of the state a step leads to;
\* the disk does not change).
CycleListedOnce ==
    \A b \in DOMAIN fs :
        \/ /\ start \notin Range(lib_paths')
           /\ Count(lib_paths', b) <= 1
           /\ (pc' = "returned" /\ IsSome(result') => Count(Unwrap(result'), b) = 1)
        \/ ~OnCycleWithStart(b)

\* C3: the traversal ends on every disk, whatever cycles the dependencies
\* form: every step lowers Rank, which is never negative, and the traversal
\* stops only when it returned or panicked, or when the process was aborted
\* for want of stack.  When A depends on B and B on A,
\* a traversal started at A never lists A and lists B once.
C3_CyclesTerminate ==
    [][LET entries == MostEntries
           dirs == MostDirs(entries)
           call == CallSteps(entries, dirs)
           paths == MostPaths(entries, dirs)
           left == Rank(call, paths)'
       IN  /\ left < Rank(call, paths)
           /\ left >= 0
           /\ (Done \/ Aborted \/ CanStep)'
           /\ CycleListedOnce]_vars

\* A traversal of a two-file cycle that returned its list.
C3_Witness ==
    /\ Returned /\ IsSome(result)
    /\ \E b \in DOMAIN fs : OnCycleWithStart(b)

\* C4: every path of lib_paths is in seen_libs, and lib_paths holds no path
\* twice.
C4_ResultSeenAndUnique ==
    /\ Range(lib_paths) \subseteq seen_libs
    /\ \A p \in Range(lib_paths) : Count(lib_paths, p) = 1
    /\ IsSome(result) => \A p \in Range(Unwrap(result)) : Count(Unwrap(result), p) = 1

\* A returned list with a path that two visited files depend on.
C4_Witness ==
    /\ Returned /\ IsSome(result)
    /\ \E p \in Range(Unwrap(result)) :
       \E q, r \in seen_libs : q # r /\ p \in DepsOf(q) /\ p \in DepsOf(r)

\* The candidate frame f forms with directory j of its search list matches.
MatchesAt(f, j) ==
    LET c == PathJoin(f.search_dirs[j], f.libs[f.lib])
    IN  HasWordSize(c, IF f.is_64_bit THEN ELF64 ELSE ELF32)

\* C5: a file's search list is the fixed directories, then the directories
\* of LD_LIBRARY_PATH that exist, then the file's own hints; a directory is
\* probed only after every earlier one failed to match, and the library
\* recursed into is the candidate of the first directory that matches.
C5_FirstMatchInAssembledOrder ==
    \A k \in 1..Len(stack) :
        LET f == stack[k]
        IN  (f.at = "loop" /\ f.lib <= Len(f.libs)) =>
                /\ f.search_dirs = SearchListOf(f.path)
                /\ \A j \in 1..(f.dir - 1) : ~MatchesAt(f, j)
                /\ k < Len(stack) =>
                       /\ MatchesAt(f, f.dir)
                       /\ stack[k + 1].path = PathJoin(f.search_dirs[f.dir], f.libs[f.lib])

\* A library taken from one directory while a later directory of the search
\* list holds a matching file of the same name.
C5_Witness ==
    /\ Len(stack) >= 2
    /\ LET f == stack[1]
       IN  /\ lib_paths = << stack[2].path >>
           /\ \E j \in (f.dir + 1)..Len(f.search_dirs) :
                  /\ MatchesAt(f, j)
                  /\ f.search_dirs[j] # f.search_dirs[f.dir]

\* C6, as claimed: the fixed directories follow the directories of
\* LD_LIBRARY_PATH that exist, so a library that lies both in such a
\* directory and in a fixed directory resolves to the former's copy.
C6_FixedDirsAfterEnvDirs ==
    \A k \in 1..Len(stack) :
        LET f == stack[k]
            n == Len(EnvDirsOnDisk)
        IN  f.at = "loop" =>
                /\ SubSeq(f.search_dirs, 1, n + Len(FixedDirs))
                       = EnvDirsOnDisk \o FixedSearchDirs
                /\ \A i \in 1..n, j \in (n + 1)..(n + Len(FixedDirs)) :
                       (/\ k < Len(stack)
                        /\ MatchesAt(f, i) /\ MatchesAt(f, j)
                        /\ \A h \in 1..Len(f.search_dirs) :
                               MatchesAt(f, h) => h \in { i, j })
                           => stack[k + 1].path = PathJoin(EnvDirsOnDisk[i], f.libs[f.lib])

\* The outcome for a file that cannot be parsed, as claimed: None returned.
ParseFailureSeen == \E p \in seen_libs : ~(CanParse(p) /\ IsSome(FileAt(p).dynstr) /\ IsSome(FileAt(p).dynamic))

\* C7, as claimed: when a visited file cannot be read, is no ELF file or
\* lacks .dynstr or .dynamic, get_libs_full_paths returns None.
C7_ParseFailureReturnsNone ==
    (Done /\ ParseFailureSeen) => (Returned /\ result = None)

\* The starting file parses and declares no dependency.
NoDependencies ==
    LET lib_data == Read(start)
    IN  /\ IsSome(lib_data) /\ IsSome(Unwrap(lib_data).dynamic)
        /\ EntriesIn(Unwrap(lib_data), { DT_NEEDED }) = << >>
        /\ WellFormed(start)

\* C8: for a starting file that declares no dependency, get_libs_full_paths
\* never fails and returns the empty list, with seen_libs holding the
\* starting path alone.
C8_NoDependenciesEmptyList ==
    NoDependencies =>
        /\ pc \notin { "panicked", "aborted" } /\ ret # "None"
        /\ lib_paths = << >>
        /\ pc # "new" => seen_libs = { start }
        /\ Returned => result = Some(<< >>)

\* A traversal of a file without dependencies (but with a hint) returned.
C8_Witness ==
    /\ NoDependencies /\ Returned /\ result = Some(<< >>)
    /\ HintsOf(start) # << >>

\* Candidate c is on disk, parses, and has another word size than file p.
OtherWordSize(c, p) == Exists(c) /\ CanParse(c) /\ FileAt(c).class # FileAt(p).class

\* Visited file p cannot be processed to the end: a dependency is missing
\* or a name does not decode.
CannotResolve(p) ==
    \/ HasMissing(p)
    \/ /\ CanParse(p) /\ IsSome(FileAt(p).dynstr) /\ IsSome(FileAt(p).dynamic)
       /\ \E e \in Range(EntriesOf(p, { DT_NEEDED })) : ~IsSome(TextOf(p, e))

\* C9: a candidate of another word size is passed over like an absent file:
\* the library recursed into is the first candidate on disk with the
\* requesting file's word size, and the traversal returns None only when a
\* visited file has a dependency with no such candidate (or a name that
\* does not decode).
C9_WordSizeMismatchSkipped ==
    /\ \A k \in 1..(Len(stack) - 1) :
           /\ stack[k].at = "loop"
           /\ stack[k].lib <= Len(stack[k].libs)
           /\ Some(stack[k + 1].path)
                  = ResolvedOf(stack[k].path, stack[k].libs[stack[k].lib])
    /\ (Returned /\ result = None) => \E p \in seen_libs : CannotResolve(p)

\* A library found in a later directory after a candidate of the other word
\* size was passed over.
C9_Witness ==
    /\ Returned /\ IsSome(result) /\ Unwrap(result) # << >>
    /\ \E j \in 1..Len(SearchListOf(start)) :
           /\ OtherWordSize(PathJoin(SearchListOf(start)[j], DeclaredOf(start)[1]), start)
           /\ j < Min(Resolving(start, DeclaredOf(start)[1]))

\* C10: the starting path is never in lib_paths, also when a dependency
\* resolves to it.
C10_StartNeverListed ==
    /\ start \notin Range(lib_paths)
    /\ IsSome(result) => start \notin Range(Unwrap(result))

\* The traversal found a dependency that resolves to the starting path.
C10_Witness ==
    /\ Probing /\ Matches /\ possible_lib_path = start
    /\ lib_paths # << >>

\* C11: a second call of get_libs_full_paths on the same file, with the disk
\* and LD_LIBRARY_PATH unchanged, ends as the first did: it panics when the
\* first panicked, returns None when the first did, and else returns the
\* same paths in the same order.
C11_SecondCallSameOutcome ==
    (IsSome(previous) /\ pc \in { "returned", "panicked" }) =>
        /\ pc = Unwrap(previous).pc
        /\ result = Unwrap(previous).result

\* A second call returned a list of two paths or more.
C11_Witness ==
    /\ IsSome(previous) /\ Returned
    /\ IsSome(result) /\ Len(Unwrap(result)) >= 2
    /\ Unwrap(previous).result = result

\* The innermost call has tried every directory of its search list for a
\* dependency and none matched.
NoCandidate == InLoop /\ Top.lib <= Len(Top.libs) /\ Top.dir > Len(Top.search_dirs)

\* C12: when a dependency has no matching candidate, the call returns None
\* at once, and from then on every step only returns None from the next
\* caller: frames are dropped as they are (no caller moves on to a later
\* dependency, probes a directory or reads a file), seen_libs and lib_paths
\* stay as they are, and get_libs_full_paths returns None.
C12_FailFast ==
    [][/\ NoCandidate =>
            /\ ret' = "None" /\ stack' = Pop
            /\ seen_libs' = seen_libs /\ lib_paths' = lib_paths
       /\ ret = "None" =>
            /\ ret' = "None"
            /\ seen_libs' = seen_libs /\ lib_paths' = lib_paths
            /\ stack # << >> => stack' = Pop
            /\ stack = << >> => (pc' = "returned" /\ result' = None)]_vars

\* A call failed for a missing dependency, and its caller, which has a later
\* dependency to handle, is about to return None.
C12_Witness ==
    /\ pc = "running" /\ ret = "None" /\ stack # << >>
    /\ Top.lib < Len(Top.libs)
    /\ lib_paths # << >>
    /\ \A p \in seen_libs : WellFormed(p)
    /\ \E p \in seen_libs : HasMissing(p)

\* The candidate the innermost call looks at is the first that matches for
\* its dependency, and it was processed before.
FirstMatchSeen ==
    /\ Probing /\ Matches
    /\ \A j \in 1..(Top.dir - 1) : ~MatchesAt(Top, j)
    /\ Contains(seen_libs, possible_lib_path)

\* The step leaves the innermost call at the first directory for its next
\* dependency, and calls, returns and fails nothing.
MovesToNextLib ==
    /\ pc' = "running" /\ ret' = "-"
    /\ Len(stack') = Len(stack)
    /\ SubSeq(stack', 1, Len(stack) - 1) = Pop
    /\ stack'[Len(stack)].lib = Top.lib + 1
    /\ stack'[Len(stack)].dir = 1
    /\ stack'[Len(stack)].libs = Top.libs
    /\ stack'[Len(stack)].search_dirs = Top.search_dirs

\* The step is the abort of the process in the probe of the deepest call
\* its stack holds, and changes nothing else.
AbortsInProbe ==
    /\ Len(stack) >= stack_frames
    /\ pc' = "aborted"
    /\ UNCHANGED << stack, seen_libs, lib_paths, ret, result >>

\* C13, as claimed: when the first matching candidate of a dependency is in
\* seen_libs already, the step changes neither seen_libs nor lib_paths,
\* calls nothing, and always moves on to the next dependency without
\* failure.
C13_SeenCandidateAlwaysResolved ==
    [][FirstMatchSeen =>
          /\ seen_libs' = seen_libs /\ lib_paths' = lib_paths
          /\ MovesToNextLib]_vars

\* C13, amended: when the first matching candidate of a dependency is in
\* seen_libs already, the step changes neither seen_libs nor lib_paths and
\* calls nothing (the stack keeps its depth and its outer frames); it
\* leaves the call at the first directory for its next dependency, with no
\* later directory tried for this one and nothing failed, unless the call
\* is the deepest the stack of the process holds and the probe overflows
\* it: then the process is aborted and nothing else changes.
C13_SeenCandidateResolved ==
    [][FirstMatchSeen =>
          /\ seen_libs' = seen_libs /\ lib_paths' = lib_paths
          /\ MovesToNextLib \/ AbortsInProbe]_vars

\* A library's dependency resolved to a path that was listed before the
\* library itself was found; later directories were left untried, and the
\* call went on to its next dependency.
C13_Witness ==
    /\ InLoop /\ Top.lib > 1 /\ Top.dir = 1
    /\ IsSome(ResolvedOf(Top.path, Top.libs[Top.lib - 1]))
    /\ LET c == Unwrap(ResolvedOf(Top.path, Top.libs[Top.lib - 1]))
       IN  /\ \E i, j \in 1..Len(lib_paths) :
                  i < j /\ lib_paths[i] = c /\ lib_paths[j] = Top.path
           /\ Min(Resolving(Top.path, Top.libs[Top.lib - 1])) < Len(Top.search_dirs)

\* The entries of file p that collect_libs decodes, in order.
Texts(p) == EntriesOf(p, { DT_NEEDED, DT_RPATH, DT_RUNPATH })

\* Entry i of Texts(p) is a dependency name at an offset inside .dynstr
\* that does not decode, and every entry before it decodes.
NameFailsAt(p, i) ==
    LET es == Texts(p)
    IN  /\ es[i].d_tag = DT_NEEDED
        /\ es[i].d_val <= Len(Unwrap(FileAt(p).dynstr))
        /\ ~IsSome(TextOf(p, es[i]))
        /\ \A j \in 1..(i - 1) : IsSome(TextOf(p, es[j]))

\* File p parses, and decoding its entries fails at a dependency name.
NameFails(p) ==
    /\ CanParse(p) /\ IsSome(FileAt(p).dynstr) /\ IsSome(FileAt(p).dynamic)
    /\ \E i \in 1..Len(Texts(p)) : NameFailsAt(p, i)

\* C14: a file whose entries fail to decode at a dependency name (bytes
\* that are not UTF-8 before the NUL, or no NUL up to the end of .dynstr)
\* never gets to resolve any of its dependencies (no call enters its loop
\* over libs for such a file), and once such a file was visited
\* get_libs_full_paths ends by returning None.
C14_UndecodableNameReturnsNone ==
    /\ (InLoop /\ Top.lib = 1 /\ Top.dir = 1) => ~NameFails(Top.path)
    /\ (Done /\ \E p \in seen_libs : NameFails(p)) => (Returned /\ result = None)

\* None was returned for a starting file whose first dependency name does
\* not decode and whose later dependency lies in a fixed directory.
C14_Witness ==
    /\ Returned /\ result = None
    /\ NameFails(start)
    /\ \E i, j \in 1..Len(Texts(start)) :
           /\ i < j
           /\ NameFailsAt(start, i)
           /\ Texts(start)[j].d_tag = DT_NEEDED
           /\ IsSome(TextOf(start, Texts(start)[j]))
           /\ Exists(PathJoin(FixedSearchDirs[1], Unwrap(TextOf(start, Texts(start)[j]))))

\* Path c is listed for the file of the innermost call: c is a file on
\* disk that parses, a dependency of that file resolves to it, and c has
\* the word size of that file and of the starting file.
ListedWithWordSize(c) ==
    /\ Exists(c) /\ CanParse(c)
    /\ c \in DepsOf(Top.path)
    /\ FileAt(c).class = FileAt(Top.path).class
    /\ FileAt(c).class = FileAt(start).class

\* C15: lib_paths changes only by a path put at its end, and every path put
\* there is on disk with the word size of the file that requested it and
\* of the starting file; the list returned is lib_paths.  So a 64-bit
\* starting file never lists a 32-bit path, nor a 32-bit one a 64-bit path.
C15_ResultHasStartWordSize ==
    [][/\ lib_paths' # lib_paths =>
            /\ Len(lib_paths') = Len(lib_paths) + 1
            /\ lib_paths' = Append(lib_paths, lib_paths'[Len(lib_paths')])
            /\ ListedWithWordSize(lib_paths'[Len(lib_paths')])
       /\ (pc' = "returned" /\ IsSome(result')) => result' = Some(lib_paths)]_vars

\* A 32-bit starting file got its list while a 64-bit file of the
\* dependency's name lies in a directory of its search list.
C15_Witness ==
    /\ Returned /\ IsSome(result) /\ Unwrap(result) # << >>
    /\ FileAt(start).class = ELF32
    /\ \E j \in 1..Len(SearchListOf(start)) :
           LET c == PathJoin(SearchListOf(start)[j], DeclaredOf(start)[1])
           IN  Exists(c) /\ CanParse(c) /\ FileAt(c).class = ELF64

\* The depth-first walk in pre-order, as a function of the disk.  acc holds
\* the paths met (seen), the paths listed in the order they were first met
\* (list), and whether the walk is still going (ok).  WalkDeps handles the
\* dependencies of file p from number i on, in the order p declares them: a
\* dependency met before is passed over; a new one is listed, then
\* everything new beneath it, and only then the next dependency.  The walk
\* stops at a dependency that resolves to nothing and at a file that does
\* not parse.
RECURSIVE Walk(_, _), WalkDeps(_, _, _)
WalkDeps(p, i, acc) ==
    IF ~acc.ok \/ i > Len(DeclaredOf(p)) THEN acc
    ELSE LET c == ResolvedOf(p, DeclaredOf(p)[i])
         IN  IF ~IsSome(c) THEN [acc EXCEPT !.ok = FALSE]
             ELSE IF Unwrap(c) \in acc.seen THEN WalkDeps(p, i + 1, acc)
             ELSE WalkDeps(p, i + 1,
                      Walk(Unwrap(c),
                           [acc EXCEPT !.seen = @ \cup { Unwrap(c) },
                                       !.list = Append(@, Unwrap(c))]))

Walk(p, acc) ==
    IF WellFormed(p) THEN WalkDeps(p, 1, acc) ELSE [acc EXCEPT !.ok = FALSE]

PreOrder == Walk(start, [seen |-> { start }, list |-> << >>, ok |-> TRUE])

IsPrefix(q, r) == Len(q) <= Len(r) /\ q = SubSeq(r, 1, Len(q))

\* C16: whenever lib_paths changes, it is the beginning of the depth-first
\* pre-order of first discovery (a dependency before everything found
\* beneath it, everything found beneath a dependency before what is found
\* beneath the file's later dependencies), and the list returned is that
\* pre-order in full.
C16_DepthFirstPreOrder ==
    [][/\ lib_paths' # lib_paths => IsPrefix(lib_paths', PreOrder.list)
       /\ (pc' = "returned" /\ IsSome(result')) =>
              (PreOrder.ok /\ Unwrap(result') = PreOrder.list)]_vars

\* The starting file declares two dependencies; the list returned holds the
\* first, then a path found beneath the first that the starting file does
\* not declare, then the second.
C16_Witness ==
    /\ Returned /\ IsSome(result) /\ Len(Unwrap(result)) = 3
    /\ Len(DeclaredOf(start)) = 2
    /\ LET r == Unwrap(result)
       IN  /\ ResolvedOf(start, DeclaredOf(start)[1]) = Some(r[1])
           /\ r[2] \in DepsOf(r[1]) /\ r[2] \notin DepsOf(start)
           /\ ResolvedOf(start, DeclaredOf(start)[2]) = Some(r[3])

\* Directory d is one file p may search: a fixed directory, a hint p
\* embeds, or a directory of LD_LIBRARY_PATH that exists.
OwnDir(d, p) ==
    \/ d \in Range(FixedSearchDirs)
    \/ d \in Range(HintsOf(p))
    \/ d \in Range(EnvDirsOnDisk)

\* Library l, reached from file f, declares a dependency that no directory
\* of its own holds, while a hint of f holds a file of that name with l's
\* word size.
NeedsHintOf(l, f) ==
    /\ WellFormed(f) /\ WellFormed(l)
    /\ l \in DepsOf(f)
    /\ \E n \in Range(DeclaredOf(l)) :
           /\ ~IsSome(ResolvedOf(l, n))
           /\ \E h \in Range(HintsOf(f)) : SameWordSize(PathJoin(h, n), l)

\* C17: a call made for a library probes no directory but the fixed ones,
\* those of LD_LIBRARY_PATH and the hints the library itself embeds,
\* whatever the files it was reached from embed; and when a visited library
\* declares a dependency that only a hint of the file it was reached from
\* holds, get_libs_full_paths returns None.
C17_HintsNotInherited ==
    /\ (Probing /\ Len(stack) > 1) =>
           OwnDir(Top.search_dirs[Top.dir], Top.path)
    /\ (Returned /\ \E f \in seen_libs, l \in seen_libs \ { start } : NeedsHintOf(l, f))
           => result = None

\* None was returned after the starting file, which embeds a hint, led to a
\* library that embeds none and declares a dependency only the hint holds.
C17_Witness ==
    /\ Returned /\ result = None
    /\ \E l \in Range(lib_paths) :
           /\ NeedsHintOf(l, start)
           /\ HintsOf(l) = << >>

\* The candidate the innermost call looks at is on disk, and reading it or
\* parsing it as ELF fails.
BadCandidate ==
    Probing /\ Exists(possible_lib_path) /\ ~CanParse(possible_lib_path)

\* The step leaves the innermost call at the next directory for the same
\* dependency, and returns and fails nothing.
MovesToNextDir ==
    /\ stack' = SetTop([Top EXCEPT !.dir = Top.dir + 1])
    /\ pc' = "running" /\ ret' = "-"

\* C18, as claimed: a candidate on disk that cannot be read or is no ELF
\* file is always passed over: the call goes to the next directory for the
\* same dependency, seen_libs and lib_paths stay as they are; and no such
\* path is ever put into seen_libs or lib_paths.
C18_UnparsableCandidateAlwaysSkipped ==
    [][/\ BadCandidate =>
            /\ seen_libs' = seen_libs /\ lib_paths' = lib_paths
            /\ MovesToNextDir
       /\ \A p \in (seen_libs' \ { start }) \cup Range(lib_paths') :
              CanParse(p)]_vars

\* C18, amended: a candidate on disk that cannot be read or is no ELF file
\* is passed over: seen_libs and lib_paths stay as they are, and the call
\* goes to the next directory for the same dependency with nothing returned
\* and no panic, unless the call is the deepest the stack of the process
\* holds and the probe overflows it: then the process is aborted and
\* nothing else changes.  No such path is ever put into seen_libs or
\* lib_paths.
C18_UnparsableCandidateSkipped ==
    [][/\ BadCandidate =>
            /\ seen_libs' = seen_libs /\ lib_paths' = lib_paths
            /\ MovesToNextDir \/ AbortsInProbe
       /\ \A p \in (seen_libs' \ { start }) \cup Range(lib_paths') :
              CanParse(p)]_vars

\* The list was returned with a dependency found in a later directory,
\* after a file of its name that cannot be read or is no ELF file was
\* passed over in an earlier directory.
C18_Witness ==
    /\ Returned /\ IsSome(result) /\ Unwrap(result) # << >>
    /\ \E j \in 1..Len(SearchListOf(start)) :
           LET c == PathJoin(SearchListOf(start)[j], DeclaredOf(start)[1])
           IN  /\ Exists(c) /\ ~CanParse(c)
               /\ j < Min(Resolving(start, DeclaredOf(start)[1]))

====
